---- MODULE Spec2Model ----
(***************************************************************************)
(* TinyLSMTree: the manifest log (src/unnamed/part_000) and the engine's    *)
(* write path, memtables and recovery (src/lsm/lsm.go).                    *)
(*                                                                         *)
(* Spec     : one ManifestFile over a directory that holds MANIFEST and    *)
(*            REWRITEMANIFEST, with IO failures and crashes.               *)
(* SpecLSM  : one engine over a directory of .wal and .sst files, with     *)
(*            Set, the flush of sealed memtables, IO failures, crashes and *)
(*            recovery.                                                    *)
(*                                                                         *)
(* A file is a sequence of tokens instead of bytes: the 8-byte header, a   *)
(* complete frame (len, crc, payload), and the shapes a torn write leaves  *)
(* (part of a header, part of a len/crc prefix, a prefix with a short      *)
(* payload).  Offsets count tokens.                                        *)
(***************************************************************************)
EXTENDS Integers, Sequences, FiniteSets, TLC

(***************************************************************************)
(* Bounds of the model.                                                    *)
(***************************************************************************)
\* events of one run: calls of AddChanges, AddTableMeta and rewrite, IO
\* failures and crashes
MaxEvents == 3

(***************************************************************************)
(* Program constants.                                                      *)
(***************************************************************************)
\* utils.ManifestDeletionsRewriteThreshold is 10000 and
\* utils.ManifestDeletionsRatio is 10 in the source.  They are scaled to
\* the values of the spec's Scenario B (threshold 2, ratio 1) so that the
\* Rewrite branch of addChanges is within reach of a bounded run; the
\* comparison operators are the source's.
ManifestDeletionsRewriteThreshold == 2
ManifestDeletionsRatio == 1
\* utils.MagicVersion
MagicVersion == 1
\* TableManifest.Level is a uint8: uint8(x) = x % 256
Uint8Mod == 256

MagicText == "WIN!"

\* the table ids of the model
Ids == {1, 2}
\* the lengths of the ChangeSets handed to AddChanges
ChangeSetLens == {1, 2}
\* the levels a Change is given: pb.ManifestChange.Level is a uint32
LevelInputs == {0, Uint8Mod}
Checksums == {"mock"}

NoFile == [exists |-> FALSE]
NoManifest == [open |-> FALSE]
Nil == "nil"

(***************************************************************************)
(* Manifest, Changes                                                       *)
(***************************************************************************)
createNewManifest ==
    [Levels |-> <<>>, Tables |-> [x \in {} |-> 0], Creations |-> 0, Deletions |-> 0]

\* Level: uint32(level); every level of LevelInputs is below 2^32, where the
\* conversion changes nothing.
newCreateChange(sstId, level, checksum) ==
    [Id |-> sstId, Op |-> "CREATE", Level |-> level, Checksum |-> checksum]

\* a pb.ManifestChange whose Op is DELETE
DeleteChange(sstId) ==
    [Id |-> sstId, Op |-> "DELETE", Level |-> 0, Checksum |-> "mock"]

\* a Change whose Op is neither CREATE nor DELETE
UnknownOpChange == [Id |-> 1, Op |-> "UNKNOWN", Level |-> 0, Checksum |-> "mock"]

ChangeInputs ==
    {newCreateChange(id, l, c) : id \in Ids, l \in LevelInputs, c \in Checksums}
        \cup {DeleteChange(id) : id \in Ids}
        \cup {UnknownOpChange}

ChangeSetInputs ==
    UNION {[1..n -> ChangeInputs] : n \in ChangeSetLens}

Uint8(x) == x % Uint8Mod

\* for len(mf.Levels) <= int(change.Level) { append an empty level }
ExtendLevels(levels, level) ==
    IF Len(levels) > level THEN levels
    ELSE levels \o [i \in 1..(level + 1 - Len(levels)) |-> {}]

applyManifestChange(mf, change) ==
    CASE change.Op = "CREATE" ->
            IF change.Id \in DOMAIN mf.Tables
            THEN [err |-> "TableExists", mf |-> mf]
            ELSE LET ext == ExtendLevels(mf.Levels, change.Level)
                 IN [err |-> Nil,
                     mf  |-> [Tables    |-> (change.Id :> [Level |-> Uint8(change.Level),
                                                          Checksum |-> change.Checksum])
                                              @@ mf.Tables,
                              Levels    |-> [ext EXCEPT ![change.Level + 1] = @ \cup {change.Id}],
                              Creations |-> mf.Creations + 1,
                              Deletions |-> mf.Deletions]]
      [] change.Op = "DELETE" ->
            IF change.Id \notin DOMAIN mf.Tables
            THEN [err |-> "TableMissing", mf |-> mf]
            ELSE LET tm == mf.Tables[change.Id]
                 IN [err |-> Nil,
                     mf  |-> [Tables    |-> [x \in (DOMAIN mf.Tables) \ {change.Id} |-> mf.Tables[x]],
                              Levels    |-> [mf.Levels EXCEPT ![tm.Level + 1] = @ \ {change.Id}],
                              Creations |-> mf.Creations,
                              Deletions |-> mf.Deletions + 1]]
      [] OTHER -> [err |-> "ManifestHasWrongOp", mf |-> mf]

\* Changes from..Len(changes) applied in order; stops at the first error and
\* keeps what the earlier Changes did.
RECURSIVE applyChangesFrom(_, _, _)
applyChangesFrom(mf, changes, from) ==
    IF from > Len(changes) THEN [err |-> Nil, mf |-> mf]
    ELSE LET r == applyManifestChange(mf, changes[from])
         IN IF r.err # Nil THEN r ELSE applyChangesFrom(r.mf, changes, from + 1)

applyChangeSet(mf, changeSet) == applyChangesFrom(mf, changeSet, 1)

\* Every order in which `range m.Tables` can visit the map.
asChanges(m) ==
    LET ids == DOMAIN m.Tables
        n   == Cardinality(ids)
    IN {[i \in 1..n |-> newCreateChange(o[i], m.Tables[o[i]].Level, m.Tables[o[i]].Checksum)] :
            o \in {f \in [1..n -> ids] : \A i, j \in 1..n : i # j => f[i] # f[j]}}

(***************************************************************************)
(* The file format and replay                                              *)
(***************************************************************************)
Header == [t |-> "hdr", magic |-> MagicText, version |-> MagicVersion]
Frame(changeSet) == [t |-> "frame", cs |-> changeSet]
PartHeader == [t |-> "partHdr"]
PartPrefix == [t |-> "partPrefix"]
ShortPayload == [t |-> "shortPayload"]
\* a complete frame whose payload does not match the CRC32 of its prefix
BadFrame(changeSet) == [t |-> "badFrame", cs |-> changeSet]

\* The loop of ReplayManifestFile from token i on.
RECURSIVE ReplayFrames(_, _, _)
ReplayFrames(data, i, mf) ==
    IF i > Len(data)
    THEN \* io.EOF on the len/crc prefix: break
         [err |-> Nil, mf |-> mf, truncOffset |-> i - 1]
    ELSE LET tok == data[i]
         IN CASE tok.t = "partPrefix" /\ i = Len(data) ->
                    \* io.ErrUnexpectedEOF on the len/crc prefix: break
                    [err |-> Nil, mf |-> mf, truncOffset |-> i - 1]
              [] tok.t = "frame" ->
                    LET r == applyChangeSet(mf, tok.cs)
                    IN IF r.err # Nil
                       THEN [err |-> r.err, mf |-> NoManifest, truncOffset |-> 0]
                       ELSE ReplayFrames(data, i + 1, r.mf)
              [] tok.t = "badFrame" ->
                    \* crc32.Checksum(changeBuf) differs from the stored one
                    [err |-> "BadChecksum", mf |-> NoManifest, truncOffset |-> 0]
              [] tok.t = "shortPayload" ->
                    \* io.ReadFull(reader, changeBuf) comes back short
                    [err |-> "UnexpectedEOF", mf |-> NoManifest, truncOffset |-> 0]
              [] OTHER ->
                    \* Bytes that are no len/crc prefix (a second header, whose
                    \* magic text read as a length announces 0x57494E21 bytes;
                    \* a partial prefix run together with what follows it): the
                    \* payload read comes back short or fails its checksum.
                    [err |-> "UnexpectedEOF", mf |-> NoManifest, truncOffset |-> 0]

\* a replay that takes a header of any version
ReplayManifestFileAnyVersion(data) ==
    IF Len(data) = 0 \/ data[1].t # "hdr"
    THEN [err |-> "BadMagic", mf |-> NoManifest, truncOffset |-> 0]
    ELSE IF data[1].magic # MagicText
    THEN [err |-> "BadMagic", mf |-> NoManifest, truncOffset |-> 0]
    ELSE ReplayFrames(data, 2, createNewManifest)

ReplayManifestFile(data) ==
    IF Len(data) = 0 \/ data[1].t # "hdr"
    THEN [err |-> "BadMagic", mf |-> NoManifest, truncOffset |-> 0]
    ELSE IF data[1].magic # MagicText
    THEN [err |-> "BadMagic", mf |-> NoManifest, truncOffset |-> 0]
    ELSE IF data[1].version # MagicVersion
    THEN [err |-> "NotSupportManifestVersion", mf |-> NoManifest, truncOffset |-> 0]
    ELSE ReplayFrames(data, 2, createNewManifest)

\* OpenManifestFile on an existing file whose Truncate and Seek succeed:
\* the error, the Manifest and what the file holds afterwards.
OpenResult(data) ==
    LET r == ReplayManifestFile(data)
    IN [err  |-> r.err,
        mf   |-> r.mf,
        data |-> IF r.err = Nil THEN SubSeq(data, 1, r.truncOffset) ELSE data]

\* a rewrite as soon as Deletions reaches the threshold
RewriteNeededAtThreshold(m) ==
    /\ m.Deletions >= ManifestDeletionsRewriteThreshold
    /\ m.Deletions > ManifestDeletionsRatio * (m.Creations - m.Deletions)

\* Deletions > threshold && Deletions > ratio * (Creations - Deletions)
RewriteNeeded(m) ==
    /\ m.Deletions > ManifestDeletionsRewriteThreshold
    /\ m.Deletions > ManifestDeletionsRatio * (m.Creations - m.Deletions)

\* AddTableMeta calls addChanges and returns its own named result, which is
\* never assigned.
AddTableMetaReturn(addChangesErr) == Nil

(***************************************************************************)
(* State                                                                   *)
(***************************************************************************)
VARIABLES
    manifest,       \* ManifestFile.manifest: the in-memory Manifest, or NoManifest
    file,           \* ManifestFile.file: "nil", "open" or "closed"
    pc,             \* where the one caller of the ManifestFile is
    cur,            \* the call in progress: [op, changes, i, rewrote, before], before
                    \* being the Manifest the call started with
    last,           \* the last call that returned: [op, err, cause]
    manifestPath,   \* the file at WorkDir/MANIFEST: [exists, data, synced]
    rewritePath,    \* the file at WorkDir/REWRITEMANIFEST
    oldPath,        \* what MANIFEST named before a rename that is not durable yet
    renamePending,  \* a rename happened and the directory was not synced since
    tmpDurable,     \* the directory entry of REWRITEMANIFEST is on disk
    hist,           \* history of this ManifestFile object: "fresh", "ok", "err"
    pre,            \* the Manifest as the running Rewrite found it
    events          \* calls, IO failures and crashes so far

mvars == <<manifest, file, pc, cur, last, manifestPath, rewritePath, oldPath,
           renamePending, tmpDurable, hist, pre, events>>

VARIABLES
    memTable,       \* LSM.memTable: [fid, sl, closed], or NoMemTable
    immutables,     \* LSM.immutables: a sequence of memtables
    levels,         \* the level manager: [tables, maxFID]
    walFiles,       \* the .wal files of WorkDir: fid -> [records, torn]
    sstFiles,       \* the .sst files of WorkDir: id -> entries
    manifestTables, \* the table ids the manifest on disk records
    lpc,            \* where the one caller of the engine is
    lcur,           \* the Set in progress: [key, value, i]
    setErr,         \* what the last Set returned
    acked,          \* key -> value of the latest Set that returned nil
    lastSet,        \* key -> value memTable.set stored last since startup
    nextValue,      \* the value the next Set writes
    levents,        \* Sets, IO failures and crashes so far
    flushLog        \* the fids levels.flush returned nil for since startup

lvars == <<memTable, immutables, levels, walFiles, sstFiles, manifestTables,
           lpc, lcur, setErr, acked, lastSet, nextValue, levents, flushLog>>

VARIABLES
    closer,         \* LSM.closer: [waiting, signal], the counter and CloseSignal
    workers,        \* the goroutines of runCompacter: id -> "idle", "busy", "exited"
    cpc             \* where the caller of StartCompacter and Close is

cvars == <<closer, workers, cpc>>

VARIABLES
    callers,        \* goroutine -> the changesParam it waits with at mf.lock.Lock(), or NotCalling
    holder,         \* the goroutine that took mf.lock last
    seen            \* what the goroutine holding GetManifest()'s pointer read last

tvars == <<callers, holder, seen>>

vars == <<mvars, lvars, cvars, tvars>>

(***************************************************************************)
(* The engine: memtables, write-ahead logs, recovery (src/lsm/lsm.go).     *)
(* An entry is [key, value]; the value of a Set is the number of that Set, *)
(* so a larger value is a later write.  The sorted index, the WAL file and *)
(* the level manager are collaborators whose code is not part of the       *)
(* sources: they are modelled from the specification.                      *)
(***************************************************************************)
\* the keys of the model
Keys == {"a", "b"}
\* lsmOptions.MemTableSize, in entries: every entry encodes to size 1
MemTableSize == 1
\* Sets, IO failures and crashes of one run of the engine
MaxLsmEvents == 6

NoMemTable == [fid |-> 0, sl |-> [x \in {} |-> 0], closed |-> TRUE]
NoSet == [key |-> "none", value |-> 0, i |-> 0]
EmptyIndex == [x \in {} |-> 0]

\* SkipList.Add and SkipList.Search; 0 is the nil entry
slAdd(sl, e) == (e.key :> e.value) @@ [x \in (DOMAIN sl) \ {e.key} |-> sl[x]]
slSearch(sl, key) == IF key \in DOMAIN sl THEN sl[key] ELSE 0

Max(S) == CHOOSE x \in S : \A y \in S : y <= x

\* memTable.Get
memTableGet(m, key) == slSearch(m.sl, key)

\* levelManager.Get: the copy of the newest table that holds the key
levelsGet(lm, key) ==
    LET holders == {id \in DOMAIN lm.tables : key \in DOMAIN lm.tables[id]}
    IN IF holders = {} THEN 0 ELSE lm.tables[Max(holders)][key]

\* a Get that walks the immutable queue from the oldest memtable on
immutablesGetOldestFirst(imms, i, key) ==
    LET hits == {j \in 1..i : memTableGet(imms[j], key) # 0}
    IN IF hits = {} THEN 0
       ELSE memTableGet(imms[CHOOSE j \in hits : \A h \in hits : j <= h], key)

\* for i := len(lsm.immutables) - 1; i >= 0; i-- (i is 1-based here)
RECURSIVE immutablesGet(_, _, _)
immutablesGet(imms, i, key) ==
    IF i < 1 THEN 0
    ELSE LET e == memTableGet(imms[i], key)
         IN IF e # 0 THEN e ELSE immutablesGet(imms, i - 1, key)

\* LSM.Get
LSMGet(key) ==
    LET e == memTableGet(memTable, key)
    IN IF e # 0 THEN e
       ELSE LET e2 == immutablesGet(immutables, Len(immutables), key)
            IN IF e2 # 0 THEN e2 ELSE levelsGet(levels, key)

\* sort.Slice(walFileId, ascending)
RECURSIVE SortAscending(_)
SortAscending(S) ==
    IF S = {} THEN <<>>
    ELSE LET m == CHOOSE x \in S : \A y \in S : x <= y
         IN <<m>> \o SortAscending(S \ {m})

\* WalFile.Iterate with replayFunction: every valid record is added to the index
RECURSIVE replayRecords(_, _, _)
replayRecords(records, i, sl) ==
    IF i > Len(records) THEN sl
    ELSE replayRecords(records, i + 1, slAdd(sl, records[i]))

\* LSM.RecoveryMemTable
RecoveryMemTable(fid) ==
    [fid |-> fid, sl |-> replayRecords(walFiles[fid].records, 1, EmptyIndex), closed |-> FALSE]

\* a recovery that queues every memtable, empty or not
recoverImmutablesKeepEmpty(fids, i) ==
    [j \in 1..(Len(fids) - i + 1) |-> RecoveryMemTable(fids[j + i - 1])]

\* the loop of LSM.recovery over the sorted ids: a memtable whose index is
\* empty after the replay is dropped
RECURSIVE recoverImmutables(_, _)
recoverImmutables(fids, i) ==
    IF i > Len(fids) THEN <<>>
    ELSE LET mt == RecoveryMemTable(fids[i])
         IN (IF DOMAIN mt.sl # {} THEN <<mt>> ELSE <<>>) \o recoverImmutables(fids, i + 1)

\* a recovery that keeps levels.maxFID whatever WAL files it finds
recoveryMaxFidKnownOnly(known, fids) == known

\* maxFid of LSM.recovery: the largest of levels.maxFID and the WAL ids
recoveryMaxFid(known, fids) == Max({known} \cup fids)

InitLSM ==
    /\ memTable = NoMemTable
    /\ immutables = <<>>
    /\ levels = [tables |-> [x \in {} |-> 0], maxFID |-> 0]
    /\ walFiles = [x \in {} |-> 0]
    /\ sstFiles = [x \in {} |-> 0]
    /\ manifestTables = {}
    /\ lpc = "down"
    /\ lcur = NoSet
    /\ setErr = "none"
    /\ acked = [k \in Keys |-> 0]
    /\ lastSet = [k \in Keys |-> 0]
    /\ nextValue = 1
    /\ levents = 0
    /\ flushLog = <<>>

\* no engine is built
NoCloser == [waiting |-> 0, signal |-> FALSE]
InitCloser ==
    /\ closer = NoCloser
    /\ workers = <<>>
    /\ cpc = "none"

\* the goroutines that share one ManifestFile
Goroutines == {1, 2}
NotCalling == <<>>
NothingSeen == [mf |-> NoManifest, partial |-> FALSE]
InitCallers ==
    /\ callers = [g \in Goroutines |-> NotCalling]
    /\ holder = 0
    /\ seen = NothingSeen

NoCall == [op |-> "none", changes |-> <<>>, i |-> 0, rewrote |-> FALSE, before |-> NoManifest]
NoRewrite == [mf |-> NoManifest, afterRewrite |-> FALSE, direct |-> FALSE]
File(data, synced) == [exists |-> TRUE, data |-> data, synced |-> synced]

Init ==
    /\ manifest = NoManifest
    /\ file = "nil"
    /\ pc = "down"
    /\ cur = NoCall
    /\ last = [op |-> "none", err |-> Nil]
    /\ manifestPath = NoFile
    /\ rewritePath = NoFile
    /\ oldPath = NoFile
    /\ renamePending = FALSE
    /\ tmpDurable = FALSE
    /\ hist = "fresh"
    /\ pre = NoRewrite
    /\ events = 0
    /\ InitLSM
    /\ InitCloser
    /\ InitCallers

diskvars == <<manifestPath, rewritePath, oldPath, renamePending, tmpDurable>>

\* A call starts, an IO call fails or the machine crashes: one more event.
Event == events < MaxEvents /\ events' = events + 1
Fault == Event
NoFault == events' = events

\* The call in progress returns to its caller; err is the error of the
\* call's last step, which AddTableMeta does not hand on.
Return(err) ==
    /\ cur' = NoCall
    /\ last' = [op    |-> cur.op,
                err   |-> IF cur.op = "AddTableMeta" THEN AddTableMetaReturn(err) ELSE err,
                cause |-> err]
    /\ pc' = IF cur.op = "Open" THEN (IF err = Nil THEN "idle" ELSE "down") ELSE "idle"
    /\ hist' = IF cur.op = "Open" THEN "fresh"
               ELSE IF err # Nil THEN "err"
               ELSE IF cur.op \in {"AddChanges", "AddTableMeta"} /\ hist # "err" THEN "ok"
               ELSE hist

(***************************************************************************)
(* OpenManifestFile                                                        *)
(***************************************************************************)
\* MANIFEST does not exist: createNewManifest, then createFileAndRewrite.
OpenCreate ==
    /\ pc \in {"down", "closed"}
    /\ ~manifestPath.exists
    /\ manifest' = createNewManifest
    /\ file' = "nil"
    /\ cur' = [NoCall EXCEPT !.op = "Open"]
    /\ pc' = "cf_write"
    /\ NoFault
    /\ pre' = NoRewrite
    /\ UNCHANGED <<last, diskvars, hist>>
    /\ UNCHANGED <<lvars, cvars, tvars>>

\* MANIFEST exists: replay, truncate to truncOffset, seek to the end.
OpenExisting ==
    /\ pc \in {"down", "closed"}
    /\ manifestPath.exists
    /\ cur' = NoCall
    /\ hist' = "fresh"
    /\ LET r == OpenResult(manifestPath.data)
       IN IF r.err # Nil
          THEN /\ manifest' = NoManifest
               /\ file' = "nil"
               /\ pc' = "down"
               /\ last' = [op |-> "Open", err |-> r.err]
               /\ NoFault
               /\ UNCHANGED manifestPath
          ELSE \/ /\ manifestPath' = File(r.data,
                                          IF manifestPath.synced < Len(r.data)
                                          THEN manifestPath.synced ELSE Len(r.data))
                  /\ manifest' = r.mf
                  /\ file' = "open"
                  /\ pc' = "idle"
                  /\ last' = [op |-> "Open", err |-> Nil]
                  /\ NoFault
               \/ \* file.Truncate or file.Seek fails
                  /\ Fault
                  /\ manifest' = NoManifest
                  /\ file' = "nil"
                  /\ pc' = "down"
                  /\ last' = [op |-> "Open", err |-> "IOFailure"]
                  /\ UNCHANGED manifestPath
    /\ pre' = NoRewrite
    /\ UNCHANGED <<rewritePath, oldPath, renamePending, tmpDurable>>
    /\ UNCHANGED <<lvars, cvars, tvars>>

(***************************************************************************)
(* createFileAndRewrite, step by step                                      *)
(***************************************************************************)
\* os.OpenFile(REWRITEMANIFEST, O_RDWR|O_CREATE|O_APPEND) and Write(buf):
\* the flags hold no O_TRUNC, so buf lands after whatever the file holds.
CfWrite ==
    /\ pc = "cf_write"
    /\ \/ /\ \E changes \in asChanges(manifest) :
                rewritePath' = File((IF rewritePath.exists THEN rewritePath.data ELSE <<>>)
                                        \o <<Header, Frame(changes)>>,
                                    IF rewritePath.exists THEN rewritePath.synced ELSE 0)
          /\ tmpDurable' = (rewritePath.exists /\ tmpDurable)
          /\ pc' = "cf_sync"
          /\ NoFault
          /\ UNCHANGED <<cur, last, hist, manifest>>
       \/ /\ Fault
          /\ Return("IOFailure")
          /\ manifest' = IF cur.op = "Open" THEN NoManifest ELSE manifest
          /\ UNCHANGED <<rewritePath, tmpDurable>>
    /\ UNCHANGED <<file, manifestPath, oldPath, renamePending, pre>>
    /\ UNCHANGED <<lvars, cvars, tvars>>

\* manifestfile.Sync() and manifestfile.Close() on the temporary file
CfSync ==
    /\ pc = "cf_sync"
    /\ \/ /\ rewritePath' = [rewritePath EXCEPT !.synced = Len(rewritePath.data)]
          /\ pc' = "cf_rename"
          /\ NoFault
          /\ UNCHANGED <<cur, last, hist, manifest>>
       \/ /\ Fault
          /\ Return("IOFailure")
          /\ manifest' = IF cur.op = "Open" THEN NoManifest ELSE manifest
          /\ UNCHANGED rewritePath
    /\ UNCHANGED <<file, manifestPath, oldPath, renamePending, tmpDurable, pre>>
    /\ UNCHANGED <<lvars, cvars, tvars>>

\* os.Rename(REWRITEMANIFEST, MANIFEST)
CfRename ==
    /\ pc = "cf_rename"
    /\ \/ /\ oldPath' = IF renamePending THEN oldPath ELSE manifestPath
          /\ manifestPath' = rewritePath
          /\ rewritePath' = NoFile
          /\ renamePending' = TRUE
          /\ pc' = "cf_syncdir"
          /\ NoFault
          /\ UNCHANGED <<cur, last, hist, manifest>>
       \/ /\ Fault
          /\ Return("IOFailure")
          /\ manifest' = IF cur.op = "Open" THEN NoManifest ELSE manifest
          /\ UNCHANGED <<manifestPath, rewritePath, oldPath, renamePending>>
    /\ UNCHANGED <<file, tmpDurable, pre>>
    /\ UNCHANGED <<lvars, cvars, tvars>>

\* os.OpenFile(MANIFEST), Seek to the end, utils.SyncDir(dir); on success
\* OpenManifestFile returns here, rewrite() goes on to reset the counters.
CfSyncDir ==
    /\ pc = "cf_syncdir"
    /\ \/ /\ renamePending' = FALSE
          /\ oldPath' = NoFile
          /\ tmpDurable' = FALSE
          /\ NoFault
          /\ IF cur.op = "Open"
             THEN /\ Return(Nil)
                  /\ file' = "open"
             ELSE /\ pc' = "rw_creations"
                  /\ UNCHANGED <<cur, last, hist, file>>
          /\ UNCHANGED manifest
       \/ /\ Fault
          /\ Return("IOFailure")
          /\ manifest' = IF cur.op = "Open" THEN NoManifest ELSE manifest
          /\ UNCHANGED <<file, oldPath, renamePending, tmpDurable>>
    /\ UNCHANGED <<manifestPath, rewritePath, pre>>
    /\ UNCHANGED <<lvars, cvars, tvars>>

(***************************************************************************)
(* ManifestFile.rewrite                                                    *)
(***************************************************************************)
\* mf.rewrite() called on its own, the manifest lock held
Rewrite ==
    /\ pc = "idle"
    /\ Event
    /\ cur' = [NoCall EXCEPT !.op = "Rewrite"]
    /\ pre' = [mf |-> manifest, afterRewrite |-> (last.op = "Rewrite" /\ last.err = Nil),
               direct |-> TRUE]
    /\ pc' = "rw_close"
    /\ UNCHANGED <<manifest, file, last, diskvars, hist>>
    /\ UNCHANGED <<lvars, cvars, tvars>>

\* mf.file.Close()
RwClose ==
    /\ pc = "rw_close"
    /\ \/ /\ file = "open"
          /\ file' = "closed"
          /\ pc' = "cf_write"
          /\ NoFault
          /\ UNCHANGED <<cur, last, hist>>
       \/ \* the handle was closed by an earlier rewrite that failed
          /\ file # "open"
          /\ Return("FileClosed")
          /\ NoFault
          /\ UNCHANGED file
       \/ /\ file = "open"
          /\ Fault
          /\ file' = "closed"
          /\ Return("IOFailure")
    /\ UNCHANGED <<manifest, diskvars, pre>>
    /\ UNCHANGED <<lvars, cvars, tvars>>

\* a rewrite that leaves Creations as it was
RwCreationsKept ==
    /\ pc = "rw_creations"
    /\ pc' = "rw_deletions"
    /\ NoFault
    /\ UNCHANGED <<manifest, file, cur, last, diskvars, hist, pre>>
    /\ UNCHANGED <<lvars, cvars, tvars>>

\* mf.manifest.Creations = nextCreations
RwCreations ==
    /\ pc = "rw_creations"
    /\ manifest' = [manifest EXCEPT !.Creations = Cardinality(DOMAIN manifest.Tables)]
    /\ pc' = "rw_deletions"
    /\ NoFault
    /\ UNCHANGED <<file, cur, last, diskvars, hist, pre>>
    /\ UNCHANGED <<lvars, cvars, tvars>>

\* mf.manifest.Deletions = 0; mf.file = fp; return nil
RwDeletions ==
    /\ pc = "rw_deletions"
    /\ manifest' = [manifest EXCEPT !.Deletions = 0]
    /\ file' = "open"
    /\ NoFault
    /\ IF cur.op = "Rewrite"
       THEN Return(Nil)
       ELSE /\ pc' = "ac_sync"
            /\ cur' = [cur EXCEPT !.rewrote = TRUE]
            /\ UNCHANGED <<last, hist>>
    /\ UNCHANGED <<diskvars, pre>>
    /\ UNCHANGED <<lvars, cvars, tvars>>

(***************************************************************************)
(* ManifestFile.addChanges                                                 *)
(***************************************************************************)
AddChanges ==
    /\ pc = "idle"
    /\ Event
    /\ \E changesParam \in ChangeSetInputs :
          cur' = [op |-> "AddChanges", changes |-> changesParam, i |-> 1, rewrote |-> FALSE,
                  before |-> manifest]
    /\ pc' = "apply"
    /\ UNCHANGED <<manifest, file, last, diskvars, hist, pre>>
    /\ UNCHANGED <<lvars, cvars, tvars>>

AddTableMeta ==
    /\ pc = "idle"
    /\ Event
    /\ \E levelNum \in LevelInputs, id \in Ids, ck \in Checksums :
          cur' = [op |-> "AddTableMeta", changes |-> <<newCreateChange(id, levelNum, ck)>>,
                  i |-> 1, rewrote |-> FALSE, before |-> manifest]
    /\ pc' = "apply"
    /\ UNCHANGED <<manifest, file, last, diskvars, hist, pre>>
    /\ UNCHANGED <<lvars, cvars, tvars>>

\* an applyChangeSet that undoes the Changes it applied when one fails
ApplyStepRollback ==
    /\ pc = "apply"
    /\ NoFault
    /\ IF cur.i <= Len(cur.changes)
       THEN LET r == applyManifestChange(manifest, cur.changes[cur.i])
            IN IF r.err # Nil
               THEN /\ Return(r.err)
                    /\ manifest' = cur.before
                    /\ UNCHANGED pre
               ELSE /\ manifest' = r.mf
                    /\ cur' = [cur EXCEPT !.i = @ + 1]
                    /\ UNCHANGED <<pc, last, hist, pre>>
       ELSE /\ IF RewriteNeeded(manifest)
               THEN /\ pc' = "rw_close"
                    /\ pre' = [mf |-> manifest, afterRewrite |-> FALSE, direct |-> pre.direct]
               ELSE /\ pc' = "ac_write"
                    /\ UNCHANGED pre
            /\ UNCHANGED <<manifest, cur, last, hist>>
    /\ UNCHANGED <<file, diskvars>>
    /\ UNCHANGED <<lvars, cvars, tvars>>

\* applyChangeSet(mf.manifest, &changes), one Change a step, then the choice
\* between rewrite and append
ApplyStep ==
    /\ pc = "apply"
    /\ NoFault
    /\ IF cur.i <= Len(cur.changes)
       THEN LET r == applyManifestChange(manifest, cur.changes[cur.i])
            IN IF r.err # Nil
               THEN /\ Return(r.err)
                    /\ UNCHANGED <<manifest, pre>>
               ELSE /\ manifest' = r.mf
                    /\ cur' = [cur EXCEPT !.i = @ + 1]
                    /\ UNCHANGED <<pc, last, hist, pre>>
       ELSE /\ IF RewriteNeeded(manifest)
               THEN /\ pc' = "rw_close"
                    /\ pre' = [mf |-> manifest, afterRewrite |-> FALSE, direct |-> pre.direct]
               ELSE /\ pc' = "ac_write"
                    /\ UNCHANGED pre
            /\ UNCHANGED <<manifest, cur, last, hist>>
    /\ UNCHANGED <<file, diskvars>>
    /\ UNCHANGED <<lvars, cvars, tvars>>

\* mf.file.Write(lenCrcBuf ++ buf)
AcWrite ==
    /\ pc = "ac_write"
    /\ \/ /\ file = "open"
          /\ manifestPath' = [manifestPath EXCEPT !.data = Append(@, Frame(cur.changes))]
          /\ pc' = "ac_sync"
          /\ NoFault
          /\ UNCHANGED <<cur, last, hist>>
       \/ /\ file # "open"
          /\ Return("FileClosed")
          /\ NoFault
          /\ UNCHANGED manifestPath
       \/ /\ file = "open"
          /\ Fault
          /\ Return("IOFailure")
          /\ UNCHANGED manifestPath
    /\ UNCHANGED <<manifest, file, rewritePath, oldPath, renamePending, tmpDurable,
                   pre>>
    /\ UNCHANGED <<lvars, cvars, tvars>>

\* err = mf.file.Sync(); return err
AcSync ==
    /\ pc = "ac_sync"
    /\ \/ /\ manifestPath' = [manifestPath EXCEPT !.synced = Len(manifestPath.data)]
          /\ Return(Nil)
          /\ NoFault
       \/ /\ Fault
          /\ Return("IOFailure")
          /\ UNCHANGED manifestPath
    /\ UNCHANGED <<manifest, file, rewritePath, oldPath, renamePending, tmpDurable,
                   pre>>
    /\ UNCHANGED <<lvars, cvars, tvars>>

\* ManifestFile.Close
Close ==
    /\ pc = "idle"
    /\ pc' = "closed"
    /\ file' = "closed"
    /\ last' = [op |-> "Close", err |-> Nil]
    /\ NoFault
    /\ UNCHANGED <<manifest, cur, diskvars, hist, pre>>
    /\ UNCHANGED <<lvars, cvars, tvars>>

(***************************************************************************)
(* Crash: the process dies and the machine restarts.  What a file holds    *)
(* afterwards is its synced tokens, then any number of the tokens written  *)
(* since, then possibly a torn piece of the next one.  A rename that was   *)
(* not followed by a directory sync may or may not have reached the disk.  *)
(***************************************************************************)
Torn(tok) == IF tok.t = "hdr" THEN {PartHeader}
             ELSE IF tok.t = "frame" THEN {PartPrefix, ShortPayload}
             ELSE {}

AfterCrash(f) ==
    IF ~f.exists THEN {NoFile}
    ELSE {File(SubSeq(f.data, 1, n), n) : n \in f.synced..Len(f.data)}
         \cup UNION {{File(Append(SubSeq(f.data, 1, n), t), n + 1) : t \in Torn(f.data[n + 1])} :
                         n \in f.synced..(Len(f.data) - 1)}

\* the directories a crash in the current state can leave
CrashOutcomes ==
    {[manifest |-> m, rewrite |-> r] :
        m \in AfterCrash(manifestPath),
        r \in AfterCrash(rewritePath) \cup (IF tmpDurable THEN {} ELSE {NoFile})}
    \cup
    (IF renamePending
     THEN \* the rename did not reach the disk
          {[manifest |-> m, rewrite |-> r] :
              m \in AfterCrash(oldPath),
              r \in AfterCrash(manifestPath) \cup (IF tmpDurable THEN {} ELSE {NoFile})}
     ELSE {})

Crash ==
    /\ Event
    /\ pc # "down" \/ manifestPath.exists
    /\ manifest' = NoManifest
    /\ file' = "nil"
    /\ pc' = "down"
    /\ cur' = NoCall
    /\ last' = [op |-> "Crash", err |-> Nil]
    /\ hist' = "fresh"
    /\ pre' = NoRewrite
    /\ renamePending' = FALSE
    /\ oldPath' = NoFile
    /\ \E d \in CrashOutcomes :
          /\ manifestPath' = d.manifest
          /\ rewritePath' = d.rewrite
    /\ tmpDurable' = rewritePath'.exists
    /\ UNCHANGED <<lvars, cvars, tvars>>

Next ==
    \/ OpenCreate
    \/ OpenExisting
    \/ CfWrite
    \/ CfSync
    \/ CfRename
    \/ CfSyncDir
    \/ Rewrite
    \/ RwClose
    \/ RwCreations
    \/ RwDeletions
    \/ AddChanges
    \/ AddTableMeta
    \/ ApplyStep
    \/ AcWrite
    \/ AcSync
    \/ Close
    \/ Crash

Spec == Init /\ [][Next]_vars

(***************************************************************************)
(* Properties of the manifest log                                          *)
(***************************************************************************)
\* the ids of level l, an absent level being empty
LevelSet(m, l) == IF l + 1 <= Len(m.Levels) THEN m.Levels[l + 1] ELSE {}

\* the same Tables, the same ids at every level, the same counters
LogicalEq(m1, m2) ==
    /\ m1 # NoManifest
    /\ m2 # NoManifest
    /\ m1.Tables = m2.Tables
    /\ \A l \in 0..(Len(m1.Levels) + Len(m2.Levels)) : LevelSet(m1, l) = LevelSet(m2, l)
    /\ m1.Creations = m2.Creations
    /\ m1.Deletions = m2.Deletions

\* every AddChanges of this ManifestFile returned nil, and nothing else
\* was called on it
OnlyAddChangesOk == hist = "ok" /\ ~pre.direct

\* C1: after AddChanges calls that all returned nil, on the append path or
\* the Rewrite path, Close and OpenManifestFile give back the Tables, the
\* ids of every level and the counters the Manifest had before the Close.
C1_RoundTrip ==
    (pc = "closed" /\ OnlyAddChangesOk) =>
        /\ OpenResult(manifestPath.data).err = Nil
        /\ LogicalEq(OpenResult(manifestPath.data).mf, manifest)

\* C2: once AddChanges returned nil (the directory entry of MANIFEST being
\* on disk), whatever a crash leaves of the directory, OpenManifestFile gives
\* a Manifest with that ChangeSet and all the acknowledged ones before it.
C2_DurableOnReturn ==
    (pc = "idle" /\ OnlyAddChangesOk /\ last.op = "AddChanges" /\ ~renamePending) =>
        \A d \in CrashOutcomes :
            /\ d.manifest.exists
            /\ OpenResult(d.manifest.data).err = Nil
            /\ LogicalEq(OpenResult(d.manifest.data).mf, manifest)

\* the 8-byte header, then complete frames, then at most the torn frame of
\* an append that a crash cut
WellFormed(data) ==
    /\ Len(data) >= 1
    /\ data[1] = Header
    /\ \A i \in 2..Len(data) :
          \/ data[i].t = "frame"
          \/ i = Len(data) /\ data[i].t \in {"partPrefix", "shortPayload"}

\* C3: whatever Rewrites, crashes, IO failures and reopenings happened, the
\* file at the MANIFEST path is a complete manifest, old or new: one header
\* and the frames after it, never a hybrid of two files.
C3_RewriteAtomicity ==
    manifestPath.exists => WellFormed(manifestPath.data)

\* C6: every id of Tables is in exactly one Levels set, the one of
\* Tables[id].Level, and no Levels set holds an id that Tables lacks.
C6_TablesLevelsConsistent ==
    manifest # NoManifest =>
        /\ \A id \in DOMAIN manifest.Tables :
              \A l \in 0..Len(manifest.Levels) :
                  (id \in LevelSet(manifest, l)) <=> (l = manifest.Tables[id].Level)
        /\ \A l \in 0..Len(manifest.Levels) :
              LevelSet(manifest, l) \subseteq DOMAIN manifest.Tables

\* C7: Creations - Deletions is the number of ids in Tables after every
\* applied Change, after every AddChanges, failed or not, after every Rewrite
\* and after replay; rewrite assigns the two counters one after the other,
\* and the state between the two assignments is left out.
C7_CounterInvariant ==
    (manifest # NoManifest /\ pc # "rw_deletions") =>
        manifest.Creations - manifest.Deletions = Cardinality(DOMAIN manifest.Tables)

\* an AddChanges failed halfway, after a DELETE of it was applied
C7_WitnessFailedAddChanges ==
    /\ pc = "idle"
    /\ last.op = "AddChanges"
    /\ last.err # Nil
    /\ manifest.Deletions >= 1
    /\ DOMAIN manifest.Tables # {}

\* C8: a Rewrite that returns nil leaves Tables and Levels as they were, sets
\* Deletions to 0 and Creations to the number of tables; a second Rewrite
\* right after it changes nothing, and replaying the rewritten file gives the
\* in-memory Manifest.
C8_RewriteIdempotent ==
    (pc = "idle" /\ last.op = "Rewrite" /\ last.err = Nil) =>
        /\ manifest.Tables = pre.mf.Tables
        /\ manifest.Levels = pre.mf.Levels
        /\ manifest.Deletions = 0
        /\ manifest.Creations = Cardinality(DOMAIN manifest.Tables)
        /\ pre.afterRewrite => manifest = pre.mf
        /\ OpenResult(manifestPath.data).err = Nil
        /\ LogicalEq(OpenResult(manifestPath.data).mf, manifest)

\* the file ends with an incomplete frame after a header and complete frames
TornTail(data) ==
    /\ Len(data) >= 2
    /\ WellFormed(data)
    /\ data[Len(data)].t \in {"partPrefix", "shortPayload"}

\* C9: when the manifest file ends with an incomplete frame, a part of the
\* len/crc prefix or a prefix with a short payload, OpenManifestFile returns
\* nil and the Manifest of the complete frames, and cuts the file after the
\* last complete frame.
C9_TruncatedTailTolerated ==
    (manifestPath.exists /\ TornTail(manifestPath.data)) =>
        LET data   == manifestPath.data
            prefix == SubSeq(data, 1, Len(data) - 1)
        IN OpenResult(prefix).err = Nil =>
              /\ OpenResult(data).err = Nil
              /\ OpenResult(data).mf = OpenResult(prefix).mf
              /\ OpenResult(data).data = prefix

(***************************************************************************)
(* The engine's actions                                                    *)
(***************************************************************************)
LsmEvent == levents < MaxLsmEvents /\ levents' = levents + 1
NoLsmEvent == levents' = levents

\* initLSM: initLevelManager, then recovery.  The level manager loads the
\* tables the manifest records, removes the table files it does not record
\* (RevertToManifest) and knows the largest table id as maxFID.
StartLSM ==
    /\ lpc = "down"
    /\ manifestTables \subseteq DOMAIN sstFiles
    /\ LET fids   == DOMAIN walFiles
           tables == [id \in manifestTables |-> sstFiles[id]]
           known  == Max({0} \cup manifestTables)
           maxFid == recoveryMaxFid(known, fids)
       IN /\ sstFiles' = tables
          /\ immutables' = recoverImmutables(SortAscending(fids), 1)
          /\ memTable' = [fid |-> maxFid + 1, sl |-> EmptyIndex, closed |-> FALSE]
          /\ levels' = [tables |-> tables, maxFID |-> maxFid + 1]
          \* UpdateSkipList truncates each WAL to its valid records;
          \* NewMemtable opens the WAL of the new memtable
          /\ walFiles' = ((maxFid + 1) :> [records |-> <<>>, torn |-> FALSE])
                            @@ [f \in fids |-> [walFiles[f] EXCEPT !.torn = FALSE]]
    /\ lpc' = "ready"
    /\ lastSet' = [k \in Keys |-> 0]
    /\ setErr' = "none"
    /\ NoLsmEvent
    /\ UNCHANGED <<manifestTables, lcur, acked, nextValue>>
    /\ flushLog' = <<>>
    /\ UNCHANGED <<mvars, cvars, tvars>>

\* LSM.Set, up to the call of memTable.set: the active memtable is sealed
\* and replaced when the entry does not fit its WAL
SetBegin ==
    /\ lpc = "ready"
    /\ LsmEvent
    /\ \E key \in Keys : lcur' = [key |-> key, value |-> nextValue, i |-> 1]
    /\ nextValue' = nextValue + 1
    /\ IF Len(walFiles[memTable.fid].records) + 1 > MemTableSize
       THEN LET newFid == levels.maxFID + 1
            IN /\ immutables' = Append(immutables, memTable)
               /\ memTable' = [fid |-> newFid, sl |-> EmptyIndex, closed |-> FALSE]
               /\ levels' = [levels EXCEPT !.maxFID = newFid]
               /\ walFiles' = (newFid :> [records |-> <<>>, torn |-> FALSE]) @@ walFiles
       ELSE UNCHANGED <<immutables, memTable, levels, walFiles>>
    /\ lpc' = "set_wal"
    /\ UNCHANGED <<sstFiles, manifestTables, setErr, acked, lastSet>>
    /\ UNCHANGED flushLog
    /\ UNCHANGED <<mvars, cvars, tvars>>

\* a set that goes on to the index although the WAL append failed
SetWalIgnoreError ==
    /\ lpc = "set_wal"
    /\ \/ /\ walFiles' = [walFiles EXCEPT ![memTable.fid].records =
                              Append(@, [key |-> lcur.key, value |-> lcur.value])]
          /\ NoLsmEvent
       \/ /\ LsmEvent
          /\ UNCHANGED walFiles
    /\ lpc' = "set_index"
    /\ UNCHANGED <<lcur, setErr>>
    /\ UNCHANGED <<memTable, immutables, levels, sstFiles, manifestTables, acked, lastSet,
                   nextValue>>
    /\ UNCHANGED flushLog
    /\ UNCHANGED <<mvars, cvars, tvars>>

\* memTable.set: m.wal.Write(entry); on an error return it
SetWal ==
    /\ lpc = "set_wal"
    /\ \/ /\ walFiles' = [walFiles EXCEPT ![memTable.fid].records =
                              Append(@, [key |-> lcur.key, value |-> lcur.value])]
          /\ lpc' = "set_index"
          /\ NoLsmEvent
          /\ UNCHANGED <<lcur, setErr>>
       \/ /\ LsmEvent
          /\ lpc' = "ready"
          /\ lcur' = NoSet
          /\ setErr' = "WalWrite"
          /\ UNCHANGED walFiles
    /\ UNCHANGED <<memTable, immutables, levels, sstFiles, manifestTables, acked, lastSet,
                   nextValue>>
    /\ UNCHANGED flushLog
    /\ UNCHANGED <<mvars, cvars, tvars>>

\* memTable.set: m.sl.Add(entry); on an error return it
SetIndex ==
    /\ lpc = "set_index"
    /\ \/ /\ memTable' = [memTable EXCEPT !.sl = slAdd(@, [key |-> lcur.key, value |-> lcur.value])]
          /\ lastSet' = [lastSet EXCEPT ![lcur.key] = lcur.value]
          /\ lpc' = "flush"
          /\ NoLsmEvent
          /\ UNCHANGED <<lcur, setErr>>
       \/ /\ LsmEvent
          /\ lpc' = "ready"
          /\ lcur' = NoSet
          /\ setErr' = "IndexAdd"
          /\ UNCHANGED <<memTable, lastSet>>
    /\ UNCHANGED <<immutables, levels, walFiles, sstFiles, manifestTables, acked, nextValue>>
    /\ UNCHANGED flushLog
    /\ UNCHANGED <<mvars, cvars, tvars>>

\* for _, immutable := range lsm.immutables { lsm.levels.flush(immutable) ... }
\* flush writes the table file, records the table with AddTableMeta and, when
\* that returns nil, adds the table to the level manager.
FlushImmutable ==
    /\ lpc = "flush"
    /\ lcur.i <= Len(immutables)
    /\ LET imm == immutables[lcur.i]
           id  == imm.fid
       IN \/ \* the table is written and the manifest records it
             /\ id \notin manifestTables
             /\ sstFiles' = (id :> imm.sl) @@ [x \in (DOMAIN sstFiles) \ {id} |-> sstFiles[x]]
             /\ manifestTables' = manifestTables \cup {id}
             /\ levels' = [levels EXCEPT !.tables =
                              (id :> imm.sl) @@ [x \in (DOMAIN @) \ {id} |-> @[x]]]
             /\ lpc' = "close"
             /\ flushLog' = Append(flushLog, id)
             /\ NoLsmEvent
             /\ UNCHANGED <<lcur, setErr>>
          \/ \* the table is written, addChanges fails (the id is recorded
             \* already, or the write or the sync of the manifest fails)
             /\ \/ id \in manifestTables /\ NoLsmEvent
                \/ id \notin manifestTables /\ LsmEvent
             /\ sstFiles' = (id :> imm.sl) @@ [x \in (DOMAIN sstFiles) \ {id} |-> sstFiles[x]]
             /\ UNCHANGED manifestTables
             /\ IF AddTableMetaReturn("IOFailure") = Nil
                THEN /\ levels' = [levels EXCEPT !.tables =
                                      (id :> imm.sl) @@ [x \in (DOMAIN @) \ {id} |-> @[x]]]
                     /\ lpc' = "close"
                     /\ flushLog' = Append(flushLog, id)
                     /\ UNCHANGED <<lcur, setErr>>
                ELSE /\ lpc' = "ready"
                     /\ lcur' = NoSet
                     /\ setErr' = "Flush"
                     /\ UNCHANGED <<levels, flushLog>>
          \/ \* the table cannot be written
             /\ LsmEvent
             /\ lpc' = "ready"
             /\ lcur' = NoSet
             /\ setErr' = "Flush"
             /\ UNCHANGED <<sstFiles, manifestTables, levels, flushLog>>
    /\ UNCHANGED <<memTable, immutables, walFiles, acked, lastSet, nextValue>>
    /\ UNCHANGED <<mvars, cvars, tvars>>

\* err = immutable.close(); utils.Panic(err): the WAL is closed and its file
\* removed, the index is closed.  Closing a memtable that is closed already
\* either does nothing or returns an error, on which utils.Panic ends the
\* process.
CloseImmutable ==
    /\ lpc = "close"
    /\ \/ /\ immutables' = [immutables EXCEPT ![lcur.i].closed = TRUE]
          /\ walFiles' = [f \in (DOMAIN walFiles) \ {immutables[lcur.i].fid} |-> walFiles[f]]
          /\ lcur' = [lcur EXCEPT !.i = @ + 1]
          /\ lpc' = "flush"
          /\ UNCHANGED <<memTable, levels, setErr, flushLog>>
       \/ /\ immutables[lcur.i].closed
          /\ memTable' = NoMemTable
          /\ immutables' = <<>>
          /\ levels' = [tables |-> [x \in {} |-> 0], maxFID |-> 0]
          /\ lpc' = "down"
          /\ lcur' = NoSet
          /\ setErr' = "none"
          /\ flushLog' = <<>>
          /\ UNCHANGED walFiles
    /\ NoLsmEvent
    /\ UNCHANGED <<sstFiles, manifestTables, acked, lastSet, nextValue>>
    /\ UNCHANGED <<mvars, cvars, tvars>>

\* the loop is over: the queue is emptied and Set returns nil
SetReturn ==
    /\ lpc = "flush"
    /\ lcur.i > Len(immutables)
    /\ immutables' = <<>>
    /\ acked' = [acked EXCEPT ![lcur.key] = lcur.value]
    /\ setErr' = Nil
    /\ lcur' = NoSet
    /\ lpc' = "ready"
    /\ NoLsmEvent
    /\ UNCHANGED <<memTable, levels, walFiles, sstFiles, manifestTables, lastSet, nextValue>>
    /\ UNCHANGED flushLog
    /\ UNCHANGED <<mvars, cvars, tvars>>

\* The process dies.  Files stay as they are; a crash in the middle of a WAL
\* append can leave a part of the record at the end of the active WAL.
LsmCrash ==
    /\ lpc # "down"
    /\ LsmEvent
    /\ memTable' = NoMemTable
    /\ immutables' = <<>>
    /\ levels' = [tables |-> [x \in {} |-> 0], maxFID |-> 0]
    /\ lpc' = "down"
    /\ lcur' = NoSet
    /\ setErr' = "none"
    /\ \/ UNCHANGED walFiles
       \/ /\ lpc = "set_wal"
          /\ walFiles' = [walFiles EXCEPT ![memTable.fid].torn = TRUE]
    /\ UNCHANGED <<sstFiles, manifestTables, acked, lastSet, nextValue>>
    /\ flushLog' = <<>>
    /\ UNCHANGED <<mvars, cvars, tvars>>

NextLSM ==
    \/ StartLSM
    \/ SetBegin
    \/ SetWal
    \/ SetIndex
    \/ FlushImmutable
    \/ CloseImmutable
    \/ SetReturn
    \/ LsmCrash

SpecLSM == Init /\ [][NextLSM]_vars

(***************************************************************************)
(* Properties of the engine                                                *)
(***************************************************************************)
\* the copies of a key the three tiers hold
Copies(key) ==
    {memTableGet(memTable, key)}
        \cup {memTableGet(immutables[i], key) : i \in 1..Len(immutables)}
        \cup {levels.tables[id][key] : id \in {t \in DOMAIN levels.tables : key \in DOMAIN levels.tables[t]}}

\* C4: after any Sets, crashes and recoveries, Get returns for every key the
\* value of the latest acknowledged Set of it (or of a later Set): no
\* acknowledged write is lost.
C4_WriteDurability ==
    lpc = "ready" => \A k \in Keys : acked[k] # 0 => LSMGet(k) >= acked[k]

OpenMemTables ==
    (IF lpc # "down" THEN {memTable} ELSE {})
        \cup {immutables[i] : i \in {j \in 1..Len(immutables) : ~immutables[j].closed}}

Records(fid) == {walFiles[fid].records[i] : i \in 1..Len(walFiles[fid].records)}

\* C10: an entry is in the index of a memtable only if the memtable's WAL
\* holds its record, and a set whose WAL append failed returns the error and
\* leaves the entry out of the index.
C10_WriteAheadOrdering ==
    /\ \A m \in OpenMemTables :
          /\ m.fid \in DOMAIN walFiles
          /\ \A k \in DOMAIN m.sl : [key |-> k, value |-> m.sl[k]] \in Records(m.fid)
    /\ (lpc = "ready" /\ setErr = "WalWrite") =>
          \A k \in Keys : memTableGet(memTable, k) # nextValue - 1

\* a WAL append failed and left the index of the active memtable alone,
\* while an earlier entry sits in an index with its record in the WAL
C10_Witness ==
    /\ lpc = "ready"
    /\ setErr = "WalWrite"
    /\ \E m \in OpenMemTables : \E k \in DOMAIN m.sl :
          [key |-> k, value |-> m.sl[k]] \in Records(m.fid)

\* the fids of a queue, and how often a fid is in a sequence of fids
QueueFids(q) == [j \in 1..Len(q) |-> q[j].fid]
Count(seq, x) == Cardinality({j \in 1..Len(seq) : seq[j] = x})

\* C11: when Set returns nil the immutable queue is empty, and every memtable
\* that was in the queue when the flush loop started has been flushed exactly
\* once since startup, in queue order, and is closed.
C11_NoPendingImmutables ==
    /\ (lpc = "ready" /\ setErr = Nil) => immutables = <<>>
    /\ (lpc = "flush" /\ lcur.i > Len(immutables)) =>
          /\ \A j \in 1..Len(immutables) :
                /\ immutables[j].closed
                /\ Count(flushLog, immutables[j].fid) = 1
          /\ Len(flushLog) >= Len(immutables)
          /\ SubSeq(flushLog, Len(flushLog) - Len(immutables) + 1, Len(flushLog))
                = QueueFids(immutables)

\* C18: when Set returns the error of a flush, no memtable of the queue has
\* been flushed or closed: a retry starts from the state the failed flush
\* loop started from.
C18_FlushFailureResumable ==
    (lpc = "ready" /\ setErr = "Flush") =>
        \A j \in 1..Len(immutables) :
            /\ ~immutables[j].closed
            /\ immutables[j].fid \notin {flushLog[n] : n \in 1..Len(flushLog)}
            /\ immutables[j].fid \in DOMAIN walFiles

(***************************************************************************)
(* RevertToManifest: the consistency check between the Manifest and the    *)
(* table files of WorkDir (part_000:402-420, part_002:17-70).              *)
(***************************************************************************)
\* the table ids of the directories RevertToManifest is run on
RevertIds == {1, 2, 3}

\* the names of the regular files of WorkDir: %05d.sst and %05d.wal
DirFiles ==
    {[id |-> f, ext |-> "sst"] : f \in DOMAIN sstFiles}
        \cup {[id |-> f, ext |-> "wal"] : f \in DOMAIN walFiles}

\* utils.FID: 0 for a name that does not end in .sst
FID(name) == IF name.ext # "sst" THEN 0 ELSE name.id

\* utils.LoadSSTIdMap: if fid := FID(info.Name()); fid != 0 { idMap[fid] = {} }
LoadSSTIdMap(dir) == {FID(n) : n \in dir} \ {0}

\* the Manifest that holds the tables ids at level 0, and the ChangeSet that
\* makes it
CreateAll(ids) ==
    LET order == SortAscending(ids)
    IN [i \in 1..Len(order) |-> newCreateChange(order[i], 0, "mock")]
ManifestOf(ids) == applyChangeSet(createNewManifest, CreateAll(ids)).mf

\* everything RevertToManifest leaves alone but the Manifest and the directory
revertFixed ==
    <<file, manifestPath, rewritePath, oldPath, renamePending, tmpDurable, hist, pre,
      memTable, immutables, levels, walFiles, manifestTables, lpc, lcur, setErr, acked,
      lastSet, nextValue, levents, flushLog, cvars, tvars>>

\* An open ManifestFile over some tables, and a WorkDir with some table files
\* and a WAL file.
InitRevert ==
    /\ \E tracked \in SUBSET RevertIds :
          /\ manifest = ManifestOf(tracked)
          /\ manifestPath = File(<<Header, Frame(<<>>), Frame(CreateAll(tracked))>>, 3)
    /\ \E onDisk \in SUBSET RevertIds : sstFiles = [id \in onDisk |-> EmptyIndex]
    /\ walFiles = [f \in {1} |-> [records |-> <<>>, torn |-> FALSE]]
    /\ file = "open"
    /\ pc = "idle"
    /\ cur = NoCall
    /\ last = [op |-> "none", err |-> Nil]
    /\ rewritePath = NoFile
    /\ oldPath = NoFile
    /\ renamePending = FALSE
    /\ tmpDurable = FALSE
    /\ hist = "fresh"
    /\ pre = NoRewrite
    /\ events = 0
    /\ memTable = NoMemTable
    /\ immutables = <<>>
    /\ levels = [tables |-> [x \in {} |-> 0], maxFID |-> 0]
    /\ manifestTables = {}
    /\ lpc = "down"
    /\ lcur = NoSet
    /\ setErr = "none"
    /\ acked = [k \in Keys |-> 0]
    /\ lastSet = [k \in Keys |-> 0]
    /\ nextValue = 1
    /\ levents = 0
    /\ flushLog = <<>>
    /\ InitCloser
    /\ InitCallers

\* what the caller of RevertToManifest gets back; mf, idMap and disk are the
\* Manifest, the argument and the table files the call started with
RevertReturns(err) ==
    /\ last' = [op |-> "RevertToManifest", err |-> err, mf |-> cur.mf,
                idMap |-> cur.idMap, disk |-> cur.disk]
    /\ cur' = NoCall
    /\ pc' = "idle"

\* a RevertToManifest that does not look for the tracked ids in idMap
RevertToManifestNoCheck ==
    /\ pc = "idle"
    /\ Event
    /\ LET idMap == LoadSSTIdMap(DirFiles)
       IN /\ cur' = [op |-> "RevertToManifest", mf |-> manifest, idMap |-> idMap,
                     disk |-> DOMAIN sstFiles,
                     todo |-> {id \in idMap : id \notin DOMAIN manifest.Tables}]
          /\ pc' = "rv_remove"
          /\ UNCHANGED last
    /\ UNCHANGED <<manifest, sstFiles>>
    /\ UNCHANGED revertFixed

\* RevertToManifest(LoadSSTIdMap(WorkDir)), the first loop: an id of
\* mf.manifest.Tables that is not in idMap is an error
RevertToManifest ==
    /\ pc = "idle"
    /\ Event
    /\ LET idMap == LoadSSTIdMap(DirFiles)
           call  == [op |-> "RevertToManifest", mf |-> manifest, idMap |-> idMap,
                     disk |-> DOMAIN sstFiles,
                     todo |-> {id \in idMap : id \notin DOMAIN manifest.Tables}]
       IN IF \E id \in DOMAIN manifest.Tables : id \notin idMap
          THEN /\ last' = [op |-> "RevertToManifest", err |-> "TableNotOnDisk",
                           mf |-> manifest, idMap |-> idMap, disk |-> DOMAIN sstFiles]
               /\ UNCHANGED <<cur, pc>>
          ELSE /\ cur' = call
               /\ pc' = "rv_remove"
               /\ UNCHANGED last
    /\ UNCHANGED <<manifest, sstFiles>>
    /\ UNCHANGED revertFixed

\* the second loop, one id of idMap that the Manifest does not hold, in any
\* order: os.Remove(SSTableFullPath(WorkDir, id)); its error is returned
RevertRemove ==
    /\ pc = "rv_remove"
    /\ \E id \in cur.todo :
          \/ /\ sstFiles' = [x \in (DOMAIN sstFiles) \ {id} |-> sstFiles[x]]
             /\ cur' = [cur EXCEPT !.todo = @ \ {id}]
             /\ NoFault
             /\ UNCHANGED <<last, pc>>
          \/ /\ Fault
             /\ RevertReturns("RemoveError")
             /\ UNCHANGED sstFiles
    /\ UNCHANGED manifest
    /\ UNCHANGED revertFixed

\* the second loop is over: return nil
RevertDone ==
    /\ pc = "rv_remove"
    /\ cur.todo = {}
    /\ NoFault
    /\ RevertReturns(Nil)
    /\ UNCHANGED <<manifest, sstFiles>>
    /\ UNCHANGED revertFixed

NextRevert ==
    \/ RevertToManifest
    \/ RevertRemove
    \/ RevertDone

SpecRevert == InitRevert /\ [][NextRevert]_vars

\* C12 as stated: RevertToManifest returns an error exactly when a tracked id
\* is not in idMap, and then no file is deleted; otherwise the table files
\* on disk are afterwards those of the tracked ids; the Manifest is unchanged.
C12_RevertOutcome ==
    (pc = "idle" /\ last.op = "RevertToManifest") =>
        LET missing == \E id \in DOMAIN last.mf.Tables : id \notin last.idMap
        IN /\ (last.err # Nil) <=> missing
           /\ missing => DOMAIN sstFiles = last.disk
           /\ ~missing => DOMAIN sstFiles = DOMAIN manifest.Tables
           /\ manifest = last.mf

\* C12, amended: RevertToManifest returns an error exactly when a tracked id
\* is not in idMap, in which case no file is deleted, or when the removal of
\* a stray file fails, in which case some of the stray files may be deleted
\* already and at least one is left; when it returns nil the table files on
\* disk are those of the tracked ids; the Manifest is unchanged in all cases.
C12_RevertOutcomeAmended ==
    (pc = "idle" /\ last.op = "RevertToManifest") =>
        LET tracked == DOMAIN last.mf.Tables
            missing == \E id \in tracked : id \notin last.idMap
        IN /\ missing <=> last.err = "TableNotOnDisk"
           /\ missing => DOMAIN sstFiles = last.disk
           /\ last.err = Nil => DOMAIN sstFiles = tracked
           /\ last.err = "RemoveError" =>
                 /\ tracked \subseteq DOMAIN sstFiles
                 /\ DOMAIN sstFiles \subseteq last.disk
                 /\ DOMAIN sstFiles # tracked
           /\ last.err \in {Nil, "TableNotOnDisk", "RemoveError"}
           /\ manifest = last.mf

\* a call that removed a stray file and returned nil, and the directory had
\* a file that is no table
C12_Witness ==
    /\ pc = "idle"
    /\ last.op = "RevertToManifest"
    /\ last.err = Nil
    /\ last.disk # DOMAIN sstFiles
    /\ DOMAIN last.mf.Tables # {}
    /\ \E n \in DirFiles : FID(n) = 0

(***************************************************************************)
(* StartCompacter and Close (lsm.go:34-66).  utils.Closer and runCompacter *)
(* are not part of the sources: the closer is a counter that Add raises,   *)
(* that every worker lowers by one when it exits, and a signal; Close of   *)
(* the closer raises the signal and waits until the counter is zero.       *)
(***************************************************************************)
\* the largest lsmOptions.NumCompactors
MaxCompactors == 3
\* the argument of utils.NewCloser in initLSM
NewCloserInitial == 1

\* utils.NewCloser(initial)
NewCloser(initial) == [waiting |-> initial, signal |-> FALSE]
\* Closer.Add(n)
CloserAdd(c, n) == [c EXCEPT !.waiting = @ + n]
\* Closer.Done()
CloserDone(c) == [c EXCEPT !.waiting = @ - 1]

\* everything but the engine's memtables, its WAL files and the closer
closeFixed ==
    <<mvars, levels, sstFiles, manifestTables, lpc, lcur, setErr, acked, lastSet, nextValue,
      flushLog, tvars>>

\* The engine initLSM returns: over an empty WorkDir, or over one WAL file
\* that recovery turned into an immutable memtable.
InitClose ==
    /\ manifest = NoManifest
    /\ file = "nil"
    /\ pc = "down"
    /\ cur = NoCall
    /\ last = [op |-> "none", err |-> Nil]
    /\ manifestPath = NoFile
    /\ rewritePath = NoFile
    /\ oldPath = NoFile
    /\ renamePending = FALSE
    /\ tmpDurable = FALSE
    /\ hist = "fresh"
    /\ pre = NoRewrite
    /\ events = 0
    /\ \/ /\ immutables = <<>>
          /\ memTable = [fid |-> 1, sl |-> EmptyIndex, closed |-> FALSE]
          /\ walFiles = (1 :> [records |-> <<>>, torn |-> FALSE])
          /\ levels = [tables |-> [x \in {} |-> 0], maxFID |-> 1]
       \/ /\ immutables = <<[fid |-> 1, sl |-> slAdd(EmptyIndex, [key |-> "a", value |-> 1]),
                             closed |-> FALSE]>>
          /\ memTable = [fid |-> 2, sl |-> EmptyIndex, closed |-> FALSE]
          /\ walFiles = (1 :> [records |-> <<[key |-> "a", value |-> 1]>>, torn |-> FALSE])
                            @@ (2 :> [records |-> <<>>, torn |-> FALSE])
          /\ levels = [tables |-> [x \in {} |-> 0], maxFID |-> 2]
    /\ sstFiles = [x \in {} |-> 0]
    /\ manifestTables = {}
    /\ lpc = "ready"
    /\ lcur = NoSet
    /\ setErr = "none"
    /\ acked = [k \in Keys |-> 0]
    /\ lastSet = [k \in Keys |-> 0]
    /\ nextValue = 2
    /\ levents = 0
    /\ flushLog = <<>>
    /\ closer = NewCloser(NewCloserInitial)
    /\ workers = <<>>
    /\ cpc = "built"
    /\ InitCallers

\* LSM.StartCompacter: closer.Add(n), then n times go runCompacter(i)
StartCompacter ==
    /\ cpc = "built"
    /\ \E n \in 1..MaxCompactors :
          /\ closer' = CloserAdd(closer, n)
          /\ workers' = [i \in 1..n |-> "idle"]
    /\ cpc' = "started"
    /\ UNCHANGED <<memTable, immutables, walFiles, levents>>
    /\ UNCHANGED closeFixed

\* runCompacter between two looks at CloseSignal: a compaction starts or ends
WorkerCompact ==
    /\ \E i \in DOMAIN workers :
          \/ workers[i] = "idle" /\ ~closer.signal /\ workers' = [workers EXCEPT ![i] = "busy"]
          \/ workers[i] = "busy" /\ workers' = [workers EXCEPT ![i] = "idle"]
    /\ UNCHANGED <<closer, cpc, memTable, immutables, walFiles, levents>>
    /\ UNCHANGED closeFixed

\* runCompacter sees CloseSignal and returns: closer.Done().  The Wait of a
\* Close in progress returns when the counter is zero.
WorkerExit ==
    /\ closer.signal
    /\ \E i \in DOMAIN workers :
          /\ workers[i] = "idle"
          /\ workers' = [workers EXCEPT ![i] = "exited"]
    /\ closer' = CloserDone(closer)
    /\ cpc' = IF cpc = "wait" /\ closer'.waiting = 0 THEN "returned" ELSE cpc
    /\ UNCHANGED <<memTable, immutables, walFiles, levents>>
    /\ UNCHANGED closeFixed

\* LSM.Close: lsm.memTable.close()
LsmCloseMemTable ==
    /\ cpc = "started"
    /\ \/ /\ memTable' = [memTable EXCEPT !.closed = TRUE]
          /\ walFiles' = [f \in (DOMAIN walFiles) \ {memTable.fid} |-> walFiles[f]]
          /\ cpc' = "close_imms"
          /\ NoLsmEvent
       \/ /\ LsmEvent
          /\ cpc' = "failed"
          /\ UNCHANGED <<memTable, walFiles>>
    /\ UNCHANGED <<closer, workers, immutables>>
    /\ UNCHANGED closeFixed

\* LSM.Close: for i := range lsm.immutables { lsm.immutables[i].close() }
LsmCloseImmutables ==
    /\ cpc = "close_imms"
    /\ \/ /\ immutables' = [j \in 1..Len(immutables) |-> [immutables[j] EXCEPT !.closed = TRUE]]
          /\ walFiles' = [f \in (DOMAIN walFiles) \ {immutables[j].fid : j \in 1..Len(immutables)}
                             |-> walFiles[f]]
          /\ cpc' = "close_levels"
          /\ NoLsmEvent
       \/ /\ immutables # <<>>
          /\ LsmEvent
          /\ cpc' = "failed"
          /\ UNCHANGED <<immutables, walFiles>>
    /\ UNCHANGED <<closer, workers, memTable>>
    /\ UNCHANGED closeFixed

\* LSM.Close: lsm.levels.close()
LsmCloseLevels ==
    /\ cpc = "close_levels"
    /\ \/ cpc' = "signal" /\ NoLsmEvent
       \/ cpc' = "failed" /\ LsmEvent
    /\ UNCHANGED <<closer, workers, memTable, immutables, walFiles>>
    /\ UNCHANGED closeFixed

\* LSM.Close: lsm.closer.Close(), which closes CloseSignal and waits for the
\* counter to be zero
CloserClose ==
    /\ cpc = "signal"
    /\ closer' = [closer EXCEPT !.signal = TRUE]
    /\ cpc' = IF closer.waiting = 0 THEN "returned" ELSE "wait"
    /\ UNCHANGED <<workers, memTable, immutables, walFiles, levents>>
    /\ UNCHANGED closeFixed

NextClose ==
    \/ StartCompacter
    \/ WorkerCompact
    \/ WorkerExit
    \/ LsmCloseMemTable
    \/ LsmCloseImmutables
    \/ LsmCloseLevels
    \/ CloserClose

SpecClose == InitClose /\ [][NextClose]_vars

\* the workers StartCompacter started that have returned
Exited == {i \in DOMAIN workers : workers[i] = "exited"}

\* C13: once Close has signalled shutdown and each of the N workers has
\* exited and lowered the counter once, the counter Close waits on is zero
\* and Close has returned.
C13_ShutdownTerminates ==
    (closer.signal /\ Exited = DOMAIN workers) =>
        /\ closer.waiting = 0
        /\ cpc = "returned"

(***************************************************************************)
(* More properties of the manifest log                                     *)
(***************************************************************************)
\* C14: AddTableMeta returns the error of its addChanges, whatever it is
\* (apply, write, rewrite or sync), and returns nil only when the CREATE is
\* applied to the Manifest and synced to the file.
C14_ManifestErrorsSurfaced ==
    (pc = "idle" /\ last.op = "AddTableMeta") =>
        /\ last.err = last.cause
        /\ last.err = Nil =>
              /\ manifest # NoManifest
              /\ manifestPath.exists
              /\ manifestPath.synced = Len(manifestPath.data)

(***************************************************************************)
(* A manifest file that is damaged while no process has it open.           *)
(***************************************************************************)
\* what a damaged token can read as: a header with another magic text or
\* another version, a frame whose payload fails its checksum
Corruptions(tok) ==
    IF tok.t = "hdr"
    THEN {[tok EXCEPT !.magic = "LOSE"], [tok EXCEPT !.version = MagicVersion + 1]} \ {tok}
    ELSE IF tok.t = "frame" THEN {BadFrame(tok.cs)}
    ELSE {}

Corrupt ==
    /\ pc \in {"down", "closed"}
    /\ manifestPath.exists
    /\ Event
    /\ \E i \in 1..Len(manifestPath.data) : \E tok \in Corruptions(manifestPath.data[i]) :
          manifestPath' = [manifestPath EXCEPT !.data[i] = tok]
    /\ UNCHANGED <<manifest, file, pc, cur, last, rewritePath, oldPath, renamePending,
                   tmpDurable, hist, pre>>
    /\ UNCHANGED <<lvars, cvars, tvars>>

NextCorrupt ==
    \/ Next
    \/ Corrupt

SpecCorrupt == Init /\ [][NextCorrupt]_vars

\* the damage the replay of data meets first
WrongMagic(data) == Len(data) >= 1 /\ data[1].t = "hdr" /\ data[1].magic # MagicText
WrongVersion(data) ==
    Len(data) >= 1 /\ data[1].t = "hdr" /\ data[1].magic = MagicText
        /\ data[1].version # MagicVersion
BadChecksumFrame(data) ==
    \E i \in 2..Len(data) :
        /\ data[i].t = "badFrame"
        /\ OpenResult(SubSeq(data, 1, i - 1)).err = Nil

\* a step of OpenManifestFile on an existing file whose IO calls succeed
OpensExisting ==
    /\ pc \in {"down", "closed"}
    /\ manifestPath.exists
    /\ last'.op = "Open"
    /\ events' = events

\* C15: opening an existing manifest with a wrong magic text, a wrong version
\* or a complete frame that fails its checksum returns BadMagic,
\* NotSupportManifestVersion and BadChecksum respectively, gives no Manifest,
\* and leaves the file as it was.
C15_CorruptionFatalNonDestructive ==
    [][OpensExisting =>
          LET data == manifestPath.data
          IN /\ WrongMagic(data) => last'.err = "BadMagic"
             /\ WrongVersion(data) => last'.err = "NotSupportManifestVersion"
             /\ BadChecksumFrame(data) => last'.err = "BadChecksum"
             /\ (WrongMagic(data) \/ WrongVersion(data) \/ BadChecksumFrame(data)) =>
                   /\ manifest' = NoManifest
                   /\ file' # "open"
                   /\ pc' = "down"
                   /\ manifestPath' = manifestPath]_vars

\* an open has failed on a frame that fails its checksum, behind a frame that
\* records a table
C15_Witness ==
    /\ pc = "down"
    /\ last.op = "Open"
    /\ last.err = "BadChecksum"
    /\ manifestPath.exists
    /\ \E i \in 2..Len(manifestPath.data) :
          /\ manifestPath.data[i].t = "badFrame"
          /\ manifestPath.data[i].cs # <<>>

\* the errors of applyManifestChange
ApplyErrors == {"TableExists", "TableMissing", "ManifestHasWrongOp"}

\* AddChanges returns the error of a Change of its ChangeSet
ApplyFails ==
    /\ pc = "apply"
    /\ cur.op = "AddChanges"
    /\ pc' = "idle"
    /\ last'.op = "AddChanges"
    /\ last'.err \in ApplyErrors

\* C16 as stated: when a Change of the ChangeSet fails, the in-memory
\* Manifest is the one the call started with, the file is untouched, and a
\* Manifest that matched the replay of the file still matches it.
C16_ChangeSetAtomicity ==
    [][ApplyFails =>
          /\ manifest' = cur.before
          /\ manifestPath' = manifestPath
          /\ LogicalEq(cur.before, OpenResult(manifestPath.data).mf) =>
                LogicalEq(manifest', OpenResult(manifestPath'.data).mf)]_vars

\* C16, amended: when a Change of the ChangeSet fails, AddChanges returns its
\* error and writes no frame; the Changes before the failing one stay
\* applied, so the in-memory Manifest is the one the call started with only
\* when the first Change is the one that fails.
C16_ChangeSetAppliedInOrder ==
    [][ApplyFails =>
          LET done == SubSeq(cur.changes, 1, cur.i - 1)
          IN /\ applyChangeSet(cur.before, done).err = Nil
             /\ manifest' = applyChangeSet(cur.before, done).mf
             /\ applyManifestChange(manifest', cur.changes[cur.i]).err = last'.err
             /\ cur.i = 1 => manifest' = cur.before
             /\ manifestPath' = manifestPath]_vars

\* an AddChanges has failed on its second Change, and the Manifest holds what
\* the first one did while the file does not
C16_Witness ==
    /\ pc = "idle"
    /\ last.op = "AddChanges"
    /\ last.err \in ApplyErrors
    /\ manifestPath.exists
    /\ OpenResult(manifestPath.data).err = Nil
    /\ ~LogicalEq(manifest, OpenResult(manifestPath.data).mf)
    /\ manifest.Creations + manifest.Deletions
          = OpenResult(manifestPath.data).mf.Creations
              + OpenResult(manifestPath.data).mf.Deletions + 1

(***************************************************************************)
(* Runs of AddChanges with one Change each on a fresh store: long enough   *)
(* for Deletions to pass the threshold.                                    *)
(***************************************************************************)
\* the frames a run appends to the manifest file before it stops calling
MaxScenarioFrames == 6

\* CREATE id at level 0, DELETE id
ScenarioInputs ==
    {<<newCreateChange(id, 0, "mock")>> : id \in Ids} \cup {<<DeleteChange(id)>> : id \in Ids}

\* AddChanges with a ChangeSet of one Change; the run ends at the first call
\* that returns an error
AddOneChange ==
    /\ pc = "idle"
    /\ hist # "err"
    /\ Len(manifestPath.data) < 2 + MaxScenarioFrames
    /\ NoFault
    /\ \E changesParam \in ScenarioInputs :
          cur' = [op |-> "AddChanges", changes |-> changesParam, i |-> 1, rewrote |-> FALSE,
                  before |-> manifest]
    /\ pc' = "apply"
    /\ UNCHANGED <<manifest, file, last, diskvars, hist, pre>>
    /\ UNCHANGED <<lvars, cvars, tvars>>

NextScenario ==
    \/ OpenCreate
    \/ CfWrite
    \/ CfSync
    \/ CfRename
    \/ CfSyncDir
    \/ AddOneChange
    \/ ApplyStep
    \/ RwClose
    \/ RwCreations
    \/ RwDeletions
    \/ AcWrite
    \/ AcSync

SpecScenario == Init /\ [][NextScenario]_vars

\* the manifest file of a fresh store after the first n calls of
\* CREATE 1, CREATE 2, DELETE 1, DELETE 2, each appended as one frame
ScenarioFrames ==
    <<Frame(<<newCreateChange(1, 0, "mock")>>), Frame(<<newCreateChange(2, 0, "mock")>>),
      Frame(<<DeleteChange(1)>>), Frame(<<DeleteChange(2)>>)>>
ScenarioFile(n) == <<Header, Frame(<<>>)>> \o SubSeq(ScenarioFrames, 1, n)

\* n calls of the history returned nil and nothing failed
ScenarioAfter(n) ==
    /\ pc = "idle"
    /\ hist = "ok"
    /\ events = 0
    /\ manifestPath.data = ScenarioFile(n)

\* DELETE 2 is applied after CREATE 1, CREATE 2, DELETE 1 and addChanges is
\* about to choose between the rewrite and the append
ScenarioDelete2Applied ==
    /\ pc = "apply"
    /\ hist = "ok"
    /\ events = 0
    /\ manifestPath.data = ScenarioFile(3)
    /\ cur.changes = <<DeleteChange(2)>>
    /\ cur.i = 2

\* what the condition of the rewrite is, in addChanges's words
TriggerCondition(m) ==
    /\ m.Deletions > ManifestDeletionsRewriteThreshold
    /\ m.Deletions > ManifestDeletionsRatio * (m.Creations - m.Deletions)

\* after the ChangeSet is applied addChanges rewrites exactly when the
\* condition holds, and otherwise appends one frame
RewriteIffTriggered ==
    /\ [](pc = "ac_write" => ~TriggerCondition(manifest))
    /\ []((pc = "rw_close" /\ cur.op = "AddChanges") => TriggerCondition(manifest))
    /\ [][(pc = "ac_write" /\ pc' = "ac_sync") =>
             manifestPath'.data = Append(manifestPath.data, Frame(cur.changes))]_vars
    /\ [](ScenarioAfter(3) =>
             /\ DOMAIN manifest.Tables = {2}
             /\ manifest.Creations = 2
             /\ manifest.Deletions = 1)

C19_FileIdsNeverCollide ==
    lpc # "down" =>
        /\ memTable.fid = levels.maxFID
        /\ memTable.fid \in DOMAIN walFiles
        /\ \A f \in (DOMAIN walFiles) \ {memTable.fid} : f < memTable.fid
        /\ \A id \in manifestTables \cup DOMAIN levels.tables \cup DOMAIN sstFiles :
              id < memTable.fid
        /\ \A n \in 1..Len(flushLog) : flushLog[n] < memTable.fid
        /\ \A j \in 1..Len(immutables) :
              /\ immutables[j].fid < memTable.fid
              /\ \A i \in 1..(j - 1) : immutables[i].fid < immutables[j].fid

\* after a recovery that found a WAL file and a table, and Sets after it, two
\* memtables wait in the queue behind a new active one
C19_Witness ==
    /\ lpc = "ready"
    /\ Len(immutables) >= 2
    /\ manifestTables # {}
    /\ memTable.fid >= 3
    /\ \E k \in Keys : acked[k] # 0 /\ lastSet[k] = 0

\* the value of the last record of the key, 0 when no record has the key
LastValue(records, key) ==
    LET at == {i \in 1..Len(records) : records[i].key = key}
    IN IF at = {} THEN 0 ELSE records[Max(at)].value

\* initLSM has returned and no Set has returned since
JustRecovered == lpc = "ready" /\ setErr = "none"

\* C20: after startup recovery the immutable queue holds one memtable for
\* every WAL file found with at least one valid record, ordered by ascending
\* file id, each holding for every key the last valid record of its WAL file;
\* no WAL file keeps a torn tail; the active memtable is empty, open, and
\* bound to a WAL file without records whose id is above every id found.
C20_RecoveryResult ==
    JustRecovered =>
        LET found    == (DOMAIN walFiles) \ {memTable.fid}
            nonEmpty == {f \in found : Len(walFiles[f].records) > 0}
        IN /\ QueueFids(immutables) = SortAscending(nonEmpty)
           /\ \A j \in 1..Len(immutables) :
                 /\ ~immutables[j].closed
                 /\ \A k \in Keys :
                       memTableGet(immutables[j], k)
                           = LastValue(walFiles[immutables[j].fid].records, k)
           /\ \A f \in DOMAIN walFiles : ~walFiles[f].torn
           /\ memTable.sl = EmptyIndex
           /\ ~memTable.closed
           /\ memTable.fid \in DOMAIN walFiles
           /\ walFiles[memTable.fid].records = <<>>
           /\ \A f \in found : f < memTable.fid

\* a recovery found two WAL files with records and one without: two
\* memtables are queued and the empty one is dropped
C20_Witness ==
    /\ JustRecovered
    /\ Len(immutables) = 2
    /\ \E f \in (DOMAIN walFiles) \ {memTable.fid} : walFiles[f].records = <<>>

(***************************************************************************)
(* Goroutines that share one ManifestFile.  addChanges takes mf.lock       *)
(* before applyChangeSet and gives it back on return (defer); GetManifest  *)
(* and RevertToManifest take no lock.                                      *)
(***************************************************************************)
\* the ChangeSets the goroutines pass: one or two Changes about table 1
ConcInputs == {cs \in ChangeSetInputs : \A i \in 1..Len(cs) : cs[i].Id = 1}

\* OpenManifestFile has returned the ManifestFile to its callers
Shared == manifest # NoManifest /\ pc # "down" /\ cur.op # "Open"

\* g is between mf.lock.Lock() and the deferred Unlock
InAddChanges(g) == holder = g /\ pc # "idle" /\ cur.op = "AddChanges"

\* a goroutine calls addChanges: the ChangeSet is built and marshalled, and
\* the goroutine waits at mf.lock.Lock()
CallAddChanges(g) ==
    /\ Shared
    /\ callers[g] = NotCalling
    /\ ~InAddChanges(g)
    /\ Event
    /\ \E changesParam \in ConcInputs : callers' = [callers EXCEPT ![g] = changesParam]
    /\ UNCHANGED <<manifest, file, pc, cur, last, diskvars, hist, pre, holder, seen>>
    /\ UNCHANGED <<lvars, cvars>>

\* mf.lock.Lock() returns to one of the goroutines waiting for it: the lock
\* is free when no addChanges is running
LockAcquire(g) ==
    /\ Shared
    /\ pc = "idle"
    /\ callers[g] # NotCalling
    /\ cur' = [op |-> "AddChanges", changes |-> callers[g], i |-> 1, rewrote |-> FALSE,
               before |-> manifest]
    /\ pc' = "apply"
    /\ holder' = g
    /\ callers' = [callers EXCEPT ![g] = NotCalling]
    /\ NoFault
    /\ UNCHANGED <<manifest, file, last, diskvars, hist, pre, seen>>
    /\ UNCHANGED <<lvars, cvars>>

\* applyManifestChange is assigning the fields of the Manifest
Racing ==
    /\ pc = "apply"
    /\ cur.i <= Len(cur.changes)
    /\ applyManifestChange(manifest, cur.changes[cur.i]).err = Nil

\* what a read that races with the assignments of one Change can return:
\* each field as it was before the Change or as it is after it
RacyReads(a, b) ==
    {[Levels |-> l, Tables |-> t, Creations |-> c, Deletions |-> d] :
        l \in {a.Levels, b.Levels}, t \in {a.Tables, b.Tables},
        c \in {a.Creations, b.Creations}, d \in {a.Deletions, b.Deletions}}

\* the views of the Manifest a goroutine can get through the pointer now
Views ==
    IF Racing
    THEN RacyReads(manifest, applyManifestChange(manifest, cur.changes[cur.i]).mf)
    ELSE {manifest}

\* the Changes of the running ChangeSet that view m holds
AppliedIn(m) ==
    IF pc # "apply" THEN 0
    ELSE IF m = manifest THEN cur.i - 1
    ELSE cur.i

\* A goroutine reads the Manifest through the pointer GetManifest returned,
\* or RevertToManifest ranges over mf.manifest.Tables: no lock is taken, so
\* the read happens wherever the addChanges of another goroutine is.
ReadManifest ==
    /\ Shared
    /\ Event
    /\ \E m \in Views :
          seen' = [mf |-> m,
                   partial |-> /\ pc = "apply"
                               /\ AppliedIn(m) > 0
                               /\ AppliedIn(m) < Len(cur.changes)]
    /\ UNCHANGED <<manifest, file, pc, cur, last, diskvars, hist, pre, callers, holder>>
    /\ UNCHANGED <<lvars, cvars>>

\* The read races with a write of the Tables map and the runtime detects
\* it: "fatal error: concurrent map read and map write" ends the process;
\* the files keep what was written to them.
ReadThrows ==
    /\ Shared
    /\ Racing
    /\ Event
    /\ manifest' = NoManifest
    /\ file' = "nil"
    /\ pc' = "down"
    /\ cur' = NoCall
    /\ last' = [op |-> "Throw", err |-> Nil]
    /\ callers' = [g \in Goroutines |-> NotCalling]
    /\ UNCHANGED <<diskvars, hist, pre, holder, seen>>
    /\ UNCHANGED <<lvars, cvars>>

NextConc ==
    \/ OpenCreate
    \/ CfWrite
    \/ CfSync
    \/ CfRename
    \/ CfSyncDir
    \/ \E g \in Goroutines : CallAddChanges(g)
    \/ \E g \in Goroutines : LockAcquire(g)
    \/ ApplyStep
    \/ RwClose
    \/ RwCreations
    \/ RwDeletions
    \/ AcWrite
    \/ AcSync
    \/ ReadManifest
    \/ ReadThrows

SpecConc == Init /\ [][NextConc]_vars

\* the calls found no stale REWRITEMANIFEST and no level of 256 or more:
\* MANIFEST holds one header and the Manifest one level at most
NoStaleFileNoHighLevel ==
    /\ Len(manifest.Levels) <= 1
    /\ \A i \in 2..Len(manifestPath.data) : manifestPath.data[i].t # "hdr"

\* with that, the replay of the file is the in-memory Manifest after every
\* interleaving of calls that returned nil
SerializedWithoutKnownBugs ==
    (Shared /\ pc = "idle" /\ hist = "ok" /\ NoStaleFileNoHighLevel) =>
        /\ OpenResult(manifestPath.data).err = Nil
        /\ LogicalEq(OpenResult(manifestPath.data).mf, manifest)

\* C21: when goroutines call AddChanges concurrently and every call returned
\* nil, the frames of the file are in the order the ChangeSets were applied,
\* so that a replay of the file reconstructs the in-memory Manifest.
C21_SerializedMutation ==
    (Shared /\ pc = "idle" /\ hist = "ok") =>
        /\ OpenResult(manifestPath.data).err = Nil
        /\ LogicalEq(OpenResult(manifestPath.data).mf, manifest)

\* C22: what a goroutine reads through GetManifest's pointer, or what
\* RevertToManifest ranges over, while other goroutines are in AddChanges or
\* in the rewrite is never a Manifest with only some Changes of a ChangeSet
\* applied, and Creations - Deletions is the number of its tables, every
\* table is in the Levels set of its level and no Levels set holds an id
\* that Tables lacks.
C22_NoPartialVisibility ==
    seen # NothingSeen =>
        /\ ~seen.partial
        /\ seen.mf.Creations - seen.mf.Deletions = Cardinality(DOMAIN seen.mf.Tables)
        /\ \A id \in DOMAIN seen.mf.Tables :
              \A l \in 0..Len(seen.mf.Levels) :
                  (id \in LevelSet(seen.mf, l)) <=> (l = seen.mf.Tables[id].Level)
        /\ \A l \in 0..Len(seen.mf.Levels) :
              LevelSet(seen.mf, l) \subseteq DOMAIN seen.mf.Tables

====
